---------------------------- MODULE Spec2Model ----------------------------
(***************************************************************************)
(* Model of the evaluation core of natpl (src/src/runtime.rs): the Runtime *)
(* with its three namespaces, the line classifier, the statement evaluator *)
(* and the recursive expression evaluator.                                 *)
(*                                                                         *)
(* Source positions (FC) are opaque data that the code only threads into   *)
(* errors; they are left out of every record.                              *)
(***************************************************************************)
EXTENDS Integers, Sequences, FiniteSets, TLC

VARIABLES
    units,      \* Runtime.units: HashSet<Name>
    variables,  \* Runtime.variables: HashMap<Name, Value>
    functions,  \* Runtime.functions: HashMap<Name, (Vec<Name>, Expression)>
    input,      \* the argument of the last call (a LineItem, or an Item)
    item,       \* the Item the last call evaluated, NoItem when there was none
    res,        \* the outcome of the last call
    nlines      \* number of calls made in this session

vars == <<units, variables, functions, input, item, res, nlines>>

\* Longest session explored.
MaxLines == 3
\* Digits after which a non-terminating quotient is cut.
DivDigits == 4

----------------------------------------------------------------------------
(* Decimal magnitudes.  A BigDecimal is an integer and a power of ten; the  *)
(* model keeps the value m * 10^e in normal form (m not divisible by ten,   *)
(* zero as m = 0, e = 0), so that equal values are equal records.           *)

RECURSIVE Pow10(_)
Pow10(k) == IF k <= 0 THEN 1 ELSE 10 * Pow10(k - 1)

Abs(n) == IF n < 0 THEN -n ELSE n

\* Quotient and remainder truncated toward zero, as for Rust integers.
TruncDiv(a, b) == IF (a < 0) = (b < 0) THEN Abs(a) \div Abs(b) ELSE -(Abs(a) \div Abs(b))
TruncRem(a, b) == IF a < 0 THEN -(Abs(a) % Abs(b)) ELSE Abs(a) % Abs(b)

RECURSIVE DecNorm(_, _)
DecNorm(m, e) ==
    IF m = 0 THEN [m |-> 0, e |-> 0]
    ELSE IF TruncRem(m, 10) = 0 THEN DecNorm(TruncDiv(m, 10), e + 1)
    ELSE [m |-> m, e |-> e]

Dec(n) == DecNorm(n, 0)

MinE(a, b) == IF a.e < b.e THEN a.e ELSE b.e
\* The integer of a at the (smaller) exponent e.
Scaled(a, e) == a.m * Pow10(a.e - e)

DecNeg(a) == [m |-> -a.m, e |-> a.e]
DecAdd(a, b) == DecNorm(Scaled(a, MinE(a, b)) + Scaled(b, MinE(a, b)), MinE(a, b))
DecSub(a, b) == DecNorm(Scaled(a, MinE(a, b)) - Scaled(b, MinE(a, b)), MinE(a, b))
DecMul(a, b) == DecNorm(a.m * b.m, a.e + b.e)

\* a / b for b # 0: exact when the quotient terminates, cut after DivDigits
\* further digits otherwise.
RECURSIVE DivFrom(_, _, _)
DivFrom(a, b, k) ==
    IF TruncRem(a.m * Pow10(k), b.m) = 0 \/ k >= DivDigits
    THEN DecNorm(TruncDiv(a.m * Pow10(k), b.m), a.e - b.e - k)
    ELSE DivFrom(a, b, k + 1)
DecDiv(a, b) == DivFrom(a, b, 0)

\* a % b for b # 0: the remainder of the integers at the common scale.
DecRem(a, b) == DecNorm(TruncRem(Scaled(a, MinE(a, b)), Scaled(b, MinE(a, b))), MinE(a, b))

DecIsZero(a) == a.m = 0
DecIsInteger(a) == a.e >= 0
DecToIsize(a) == a.m * Pow10(a.e)
DecInverse(a) == IF a.m = 0 THEN a ELSE DecDiv(Dec(1), a)

----------------------------------------------------------------------------
(* Unit algebra (term.rs): a Unit maps base-unit names to non-zero integer  *)
(* exponents; the dimensionless Unit is the empty mapping.                  *)

UnitNew == [n \in {} |-> 0]
UnitNewNamed(name) == [n \in {name} |-> 1]
UnitExp(u, n) == IF n \in DOMAIN u THEN u[n] ELSE 0
UnitMultiply(a, b) ==
    [n \in {k \in DOMAIN a \cup DOMAIN b : UnitExp(a, k) + UnitExp(b, k) # 0}
        |-> UnitExp(a, n) + UnitExp(b, n)]
UnitDivide(a, b) ==
    [n \in {k \in DOMAIN a \cup DOMAIN b : UnitExp(a, k) - UnitExp(b, k) # 0}
        |-> UnitExp(a, n) - UnitExp(b, n)]
UnitPow(u, k) == [n \in {j \in DOMAIN u : u[j] * k # 0} |-> u[n] * k]

----------------------------------------------------------------------------
(* Values, outcomes and errors.                                             *)

Number(d, u) == [kind |-> "Number", num |-> d, unit |-> u]
FunctionRef(name) == [kind |-> "FunctionRef", name |-> name, unit |-> UnitNew]

\* The kind of a Value without its Unit.
ValueKind(v) == [x \in DOMAIN v \ {"unit"} |-> v[x]]

Ok(v) == [kind |-> "Ok", val |-> v]
Err(e) == [kind |-> "Err", err |-> e]
\* todo!(), unimplemented!() and the panics of the decimal library.
Panic(what) == [kind |-> "Panic", what |-> what]

UndefinedName(name) == [type |-> "UndefinedName", name |-> name]
InvalidPrefixOperator(op, val) == [type |-> "InvalidPrefixOperator", op |-> op, val |-> val]
InvalidInfixOperator(op, lhs, rhs) ==
    [type |-> "InvalidInfixOperator", op |-> op, lhs |-> lhs, rhs |-> rhs]
InvalidSiPrefix(prefix, val) == [type |-> "InvalidSiPrefix", prefix |-> prefix, val |-> val]
IncompatibleUnits(op, lu, ru) ==
    [type |-> "IncompatibleUnits", op |-> op, lhs_unit |-> lu, rhs_unit |-> ru]
InvalidPowerValue(u, k) == [type |-> "InvalidPowerValue", unit |-> u, val |-> k]
\* The #[from] conversions: UnitError into EvalError, EvalError into ItemError.
UnitError(e) == [type |-> "UnitError", err |-> e]
EvalError(e) == [type |-> "EvalError", err |-> e]
UnitRedeclared(name) == [type |-> "UnitRedeclared", name |-> name]
VariableRedefined(name) == [type |-> "VariableRedefined", name |-> name]
FunctionRedefined(name) == [type |-> "FunctionRedefined", name |-> name]

----------------------------------------------------------------------------
(* Syntax (syntax.rs): expressions, line items and items as records.        *)

IntegerLit(d) == [tag |-> "IntegerLit", val |-> d]
FloatLit(d) == [tag |-> "FloatLit", val |-> d]
MaybeUnitPrefix(name, full_name, prefix) ==
    [tag |-> "MaybeUnitPrefix", name |-> name, full_name |-> full_name, prefix |-> prefix]
Variable(name) == [tag |-> "Variable", name |-> name]
Call(base, args) == [tag |-> "Call", base |-> base, args |-> args]
PrefixOp(op, e) == [tag |-> "PrefixOp", op |-> op, expr |-> e]
InfixOp(op, l, r) == [tag |-> "InfixOp", op |-> op, lhs |-> l, rhs |-> r]
UnitOf(e) == [tag |-> "UnitOf", expr |-> e]
Parenthesised(e) == [tag |-> "Parenthesised", expr |-> e]

InfixOps == {"Add", "Sub", "Mul", "Div", "Mod", "Pow", "Eq", "Neq", "Gt"}
PrefixOps == {"Pos", "Neg"}
SiPrefixes == {"Femto", "Pico", "Nano", "Micro", "Milli", "Centi", "Deci",
               "Deca", "Hecto", "Kilo", "Mega", "Giga", "Tera", "Peta"}

----------------------------------------------------------------------------
(* Runtime::lookup: variable, then unit, then function.                     *)

None == [kind |-> "None"]

lookup(name) ==
    IF name \in DOMAIN variables THEN variables[name]
    ELSE IF name \in units THEN Number(Dec(1), UnitNewNamed(name))
    ELSE IF name \in DOMAIN functions THEN FunctionRef(name)
    ELSE None

----------------------------------------------------------------------------
(* apply_prefix: the magnitude divided or multiplied by the power of ten,   *)
(* the Unit kept; a FunctionRef cannot be prefixed.                         *)

\* 10^k as a decimal.
TenTo(k) == [m |-> 1, e |-> k]

apply_prefix(prefix, val) ==
    IF val.kind = "Number" THEN
        Ok([val EXCEPT !.num =
            CASE prefix = "Femto" -> DecDiv(val.num, TenTo(15))
              [] prefix = "Pico"  -> DecDiv(val.num, TenTo(12))
              [] prefix = "Nano"  -> DecDiv(val.num, TenTo(9))
              [] prefix = "Micro" -> DecDiv(val.num, TenTo(6))
              [] prefix = "Milli" -> DecDiv(val.num, TenTo(3))
              [] prefix = "Centi" -> DecDiv(val.num, TenTo(2))
              [] prefix = "Deci"  -> DecDiv(val.num, TenTo(1))
              [] prefix = "Deca"  -> DecMul(val.num, TenTo(1))
              [] prefix = "Hecto" -> DecMul(val.num, TenTo(2))
              [] prefix = "Kilo"  -> DecMul(val.num, TenTo(3))
              [] prefix = "Mega"  -> DecMul(val.num, TenTo(6))
              [] prefix = "Giga"  -> DecMul(val.num, TenTo(9))
              [] prefix = "Tera"  -> DecMul(val.num, TenTo(12))
              [] prefix = "Peta"  -> DecMul(val.num, TenTo(15))])
    ELSE Err(InvalidSiPrefix(prefix, val))

----------------------------------------------------------------------------
(* infix_unit: the Unit of an infix operation, or the unit error.           *)

\* Mutant: Add, Sub and Mod take the left Unit without comparing.
infix_unit_unchecked(op, lhs, rhs) ==
    CASE op \in {"Add", "Sub", "Mod"} -> Ok(lhs.unit)
      [] op = "Mul" -> Ok(UnitMultiply(lhs.unit, rhs.unit))
      [] op = "Div" -> Ok(UnitDivide(lhs.unit, rhs.unit))
      [] op = "Pow" ->
            IF rhs.unit # UnitNew THEN Err(IncompatibleUnits(op, lhs.unit, rhs.unit))
            ELSE IF rhs.kind = "Number" /\ DecIsInteger(rhs.num)
                 THEN Ok(UnitPow(lhs.unit, DecToIsize(rhs.num)))
                 ELSE Err(InvalidPowerValue(lhs.unit, ValueKind(rhs)))
      [] op \in {"Eq", "Neq", "Gt"} -> Panic("todo")

infix_unit(op, lhs, rhs) ==
    CASE op \in {"Add", "Sub", "Mod"} ->
            IF lhs.unit = rhs.unit THEN Ok(lhs.unit)
            ELSE Err(IncompatibleUnits(op, lhs.unit, rhs.unit))
      [] op = "Mul" -> Ok(UnitMultiply(lhs.unit, rhs.unit))
      [] op = "Div" -> Ok(UnitDivide(lhs.unit, rhs.unit))
      [] op = "Pow" ->
            IF rhs.unit # UnitNew THEN Err(IncompatibleUnits(op, lhs.unit, rhs.unit))
            ELSE IF rhs.kind = "Number" /\ DecIsInteger(rhs.num)
                 THEN Ok(UnitPow(lhs.unit, DecToIsize(rhs.num)))
                 ELSE Err(InvalidPowerValue(lhs.unit, ValueKind(rhs)))
      [] op \in {"Eq", "Neq", "Gt"} -> Panic("todo")

----------------------------------------------------------------------------
(* eval_expr and eval_infix_op.                                             *)

\* res = res * a, k times, from 1.
RECURSIVE PowLoop(_, _)
PowLoop(a, k) == IF k <= 0 THEN Dec(1) ELSE DecMul(PowLoop(a, k - 1), a)

\* The (op, Number(a), Number(b)) arms of eval_infix_op's match.
number_value(op, a, b, unit) ==
    CASE op = "Add" -> Ok(Number(DecAdd(a, b), unit))
      [] op = "Sub" -> Ok(Number(DecSub(a, b), unit))
      [] op = "Mul" -> Ok(Number(DecMul(a, b), unit))
      [] op = "Div" ->
            \* BigDecimal's division panics on a zero divisor.
            IF DecIsZero(b) THEN Panic("Division by zero")
            ELSE Ok(Number(DecDiv(a, b), unit))
      [] op = "Mod" ->
            IF DecIsZero(b) THEN Panic("Division by zero")
            ELSE Ok(Number(DecRem(a, b), unit))
      [] op = "Pow" ->
            IF ~DecIsInteger(b) THEN Panic("unimplemented")
            ELSE LET pow == DecToIsize(b)
                     r == PowLoop(a, Abs(pow))
                 IN  Ok(Number(IF pow < 0 THEN DecInverse(r) ELSE r, unit))
      [] op \in {"Eq", "Neq", "Gt"} -> Panic("todo")

\* Mutant: a FunctionRef operand of Mul and Div counts as the number one.
infix_value_lenient(op, lhs, rhs, unit) ==
    IF lhs.kind = "Number" /\ rhs.kind = "Number"
    THEN number_value(op, lhs.num, rhs.num, unit)
    ELSE IF op \in {"Mul", "Div"}
         THEN number_value(op, IF lhs.kind = "Number" THEN lhs.num ELSE Dec(1),
                               IF rhs.kind = "Number" THEN rhs.num ELSE Dec(1), unit)
         ELSE Err(InvalidInfixOperator(op, lhs, rhs))

\* The match of eval_infix_op, after the unit check: its last arm takes
\* every pair that is not two Numbers.
infix_value(op, lhs, rhs, unit) ==
    IF lhs.kind = "Number" /\ rhs.kind = "Number"
    THEN number_value(op, lhs.num, rhs.num, unit)
    ELSE Err(InvalidInfixOperator(op, lhs, rhs))

\* Mutant: the prefixed reading is tried before the full name.
maybe_unit_prefix_base_first(name, full_name, prefix) ==
    IF lookup(name) # None THEN apply_prefix(prefix, lookup(name))
    ELSE IF lookup(full_name) # None THEN Ok(lookup(full_name))
    ELSE Err(UndefinedName(full_name))

maybe_unit_prefix(name, full_name, prefix) ==
    IF lookup(full_name) # None THEN Ok(lookup(full_name))
    ELSE IF lookup(name) # None THEN apply_prefix(prefix, lookup(name))
    ELSE Err(UndefinedName(full_name))

RECURSIVE eval_expr(_)

eval_infix_op(op, l, r) ==
    LET lhs == eval_expr(l) IN
    IF lhs.kind # "Ok" THEN lhs ELSE
    LET rhs == eval_expr(r) IN
    IF rhs.kind # "Ok" THEN rhs ELSE
    LET unit == infix_unit(op, lhs.val, rhs.val) IN
    IF unit.kind = "Err" THEN Err(UnitError(unit.err))
    ELSE IF unit.kind = "Panic" THEN unit
    ELSE infix_value(op, lhs.val, rhs.val, unit.val)

eval_expr(expr) ==
    CASE expr.tag \in {"IntegerLit", "FloatLit"} -> Ok(Number(expr.val, UnitNew))
      [] expr.tag = "MaybeUnitPrefix" ->
            maybe_unit_prefix(expr.name, expr.full_name, expr.prefix)
      [] expr.tag = "Variable" ->
            IF lookup(expr.name) # None THEN Ok(lookup(expr.name))
            ELSE Err(UndefinedName(expr.name))
      [] expr.tag = "Call" -> Panic("todo")
      [] expr.tag = "PrefixOp" ->
            LET val == eval_expr(expr.expr) IN
            IF val.kind # "Ok" THEN val
            ELSE IF val.val.kind = "Number"
                 THEN IF expr.op = "Pos" THEN val
                      ELSE Ok([val.val EXCEPT !.num = DecNeg(@)])
                 ELSE Err(InvalidPrefixOperator(expr.op, val.val))
      [] expr.tag = "InfixOp" -> eval_infix_op(expr.op, expr.lhs, expr.rhs)
      [] expr.tag = "UnitOf" ->
            LET val == eval_expr(expr.expr) IN
            IF val.kind # "Ok" THEN val
            ELSE Ok(Number(Dec(1), val.val.unit))
      [] expr.tag = "Parenthesised" -> eval_expr(expr.expr)

----------------------------------------------------------------------------
(* Statements.                                                              *)

\* LineItem
LineEmpty == [type |-> "Empty"]
LineUnitDeclaration(name) == [type |-> "UnitDeclaration", name |-> name]
LineMaybeDeclaration(decl) == [type |-> "MaybeDeclarationOrEqualityExpression", decl |-> decl]
LinePrintedExpression(e) == [type |-> "PrintedExpression", expr |-> e]
LineSilentExpression(e) == [type |-> "SilentExpression", expr |-> e]

\* Item
UnitDeclaration(name) == [type |-> "UnitDeclaration", name |-> name]
VariableDeclaration(name, rhs) == [type |-> "VariableDeclaration", name |-> name, rhs |-> rhs]
FunctionDeclaration(name, arg_names, rhs) ==
    [type |-> "FunctionDeclaration", name |-> name, arg_names |-> arg_names, rhs |-> rhs]
PrintedExpression(e) == [type |-> "PrintedExpression", expr |-> e]
SilentExpression(e) == [type |-> "SilentExpression", expr |-> e]

\* EvalResult
Empty == [kind |-> "Empty"]
Value(v) == [kind |-> "Value", val |-> v]
PrintValue(e, v) == [kind |-> "PrintValue", expr |-> e, val |-> v]

\* The parsed form `name = rhs` or `name(args) = rhs`.
Decl(name, is_function, arg_names, rhs) ==
    [name |-> name, is_function |-> is_function, arg_names |-> arg_names, rhs |-> rhs]

declaration_name(decl) == decl.name

\* A FunctionDeclaration if the name carries a parameter list, else a
\* VariableDeclaration.
into_declaration(decl) ==
    IF decl.is_function
    THEN FunctionDeclaration(decl.name, decl.arg_names, decl.rhs)
    ELSE VariableDeclaration(decl.name, decl.rhs)

\* The equality expression over the existing binding.
into_expression(decl) ==
    SilentExpression(InfixOp("Eq",
        IF decl.is_function
        THEN Call(decl.name, [i \in DOMAIN decl.arg_names |-> Variable(decl.arg_names[i])])
        ELSE Variable(decl.name),
        decl.rhs))

----------------------------------------------------------------------------
(* The classifier.                                                          *)

\* Option<Item>::None, and the input before the first call.
NoItem == [type |-> "None"]

\* Mutant: the variables are not asked.
is_defined_no_variables(name) ==
    \/ name \in units
    \/ name \in DOMAIN functions

\* Mutant: the functions are not asked.
is_defined_no_functions(name) ==
    \/ name \in units
    \/ name \in DOMAIN variables

is_defined(name) ==
    \/ name \in units
    \/ name \in DOMAIN variables
    \/ name \in DOMAIN functions

line_item_to_item(li) ==
    CASE li.type = "Empty" -> NoItem
      [] li.type = "UnitDeclaration" -> UnitDeclaration(li.name)
      [] li.type = "MaybeDeclarationOrEqualityExpression" ->
            IF is_defined(declaration_name(li.decl))
            THEN into_expression(li.decl)
            ELSE into_declaration(li.decl)
      [] li.type = "PrintedExpression" -> PrintedExpression(li.expr)
      [] li.type = "SilentExpression" -> SilentExpression(li.expr)

----------------------------------------------------------------------------
(* The statement evaluator.  Each arm gives the three namespaces after the  *)
(* statement and its outcome.                                               *)

After(u, v, f, r) == [units |-> u, variables |-> v, functions |-> f, res |-> r]
\* eval_expr(..)? : the error converted into ItemError, a panic as it is.
Raise(r) == IF r.kind = "Err" THEN Err(EvalError(r.err)) ELSE r

\* Mutant: a redeclared unit is taken out again.
unit_declaration_toggle(name) ==
    IF name \in units
    THEN After(units \ {name}, variables, functions, Err(UnitRedeclared(name)))
    ELSE After(units \cup {name}, variables, functions, Empty)

unit_declaration(name) ==
    After(units \cup {name}, variables, functions,
          IF name \in units THEN Err(UnitRedeclared(name)) ELSE Empty)

\* Mutant: HashMap::insert in place of the entry check.
variable_declaration_overwrite(name, rhs) ==
    LET value == eval_expr(rhs) IN
    IF value.kind # "Ok" THEN After(units, variables, functions, Raise(value))
    ELSE After(units, (name :> value.val) @@ variables, functions, Value(value.val))

\* Mutant: the entry is made before the right-hand side is evaluated.
variable_declaration_early(name, rhs) ==
    LET value == eval_expr(rhs) IN
    IF name \in DOMAIN variables
    THEN After(units, variables, functions,
               IF value.kind # "Ok" THEN Raise(value) ELSE Err(VariableRedefined(name)))
    ELSE IF value.kind # "Ok"
         THEN After(units, (name :> Number(Dec(0), UnitNew)) @@ variables, functions, Raise(value))
         ELSE After(units, (name :> value.val) @@ variables, functions, Value(value.val))

variable_declaration(name, rhs) ==
    LET value == eval_expr(rhs) IN
    IF value.kind # "Ok" THEN After(units, variables, functions, Raise(value))
    ELSE IF name \in DOMAIN variables
         THEN After(units, variables, functions, Err(VariableRedefined(name)))
         ELSE After(units, (name :> value.val) @@ variables, functions, Value(value.val))

function_declaration(name, arg_names, rhs) ==
    IF name \in DOMAIN functions
    THEN After(units, variables, functions, Err(FunctionRedefined(name)))
    ELSE After(units, variables,
               (name :> [arg_names |-> arg_names, rhs |-> rhs]) @@ functions, Empty)

printed_expression(e) ==
    LET val == eval_expr(e) IN
    After(units, variables, functions,
          IF val.kind # "Ok" THEN Raise(val) ELSE PrintValue(e, val.val))

silent_expression(e) ==
    LET val == eval_expr(e) IN
    After(units, variables, functions,
          IF val.kind # "Ok" THEN Raise(val) ELSE Value(val.val))

eval_item(it) ==
    CASE it.type = "UnitDeclaration" -> unit_declaration(it.name)
      [] it.type = "VariableDeclaration" -> variable_declaration(it.name, it.rhs)
      [] it.type = "FunctionDeclaration" -> function_declaration(it.name, it.arg_names, it.rhs)
      [] it.type = "PrintedExpression" -> printed_expression(it.expr)
      [] it.type = "SilentExpression" -> silent_expression(it.expr)

\* The Runtime after a call that ended as `after`.
Becomes(after) ==
    /\ units' = after.units
    /\ variables' = after.variables
    /\ functions' = after.functions
    /\ res' = after.res

----------------------------------------------------------------------------
(* Inputs.                                                                  *)

Names == {"m", "s", "ms", "f"}
FunctionNames == {"f", "s"}

PrefixSymbol(p) ==
    CASE p = "Femto" -> "f" [] p = "Pico" -> "p" [] p = "Nano" -> "n"
      [] p = "Micro" -> "u" [] p = "Milli" -> "m" [] p = "Centi" -> "c"
      [] p = "Deci" -> "d" [] p = "Deca" -> "da" [] p = "Hecto" -> "h"
      [] p = "Kilo" -> "k" [] p = "Mega" -> "M" [] p = "Giga" -> "G"
      [] p = "Tera" -> "T" [] p = "Peta" -> "P"

\* What the parser makes of a prefix symbol in front of `s`.
PrefixedNames == {MaybeUnitPrefix("s", PrefixSymbol(p) \o "s", p) : p \in SiPrefixes}

Half == [m |-> 5, e |-> -1]
Operands == {IntegerLit(Dec(0)), IntegerLit(Dec(2)),
             Variable("m"), Variable("s"), Variable("f")}
Atoms == Operands \cup {FloatLit(Half)} \cup {Variable(n) : n \in Names} \cup PrefixedNames
            \cup {Call(Variable("f"), <<IntegerLit(Dec(2))>>)}
InfixExprs == {InfixOp(op, l, r) : op \in InfixOps, l \in Operands, r \in Operands}
UnaryOperands == {IntegerLit(Dec(2)), Variable("s"), Variable("f")}
UnaryExprs == {PrefixOp(op, a) : op \in PrefixOps, a \in UnaryOperands}
                \cup {UnitOf(a) : a \in UnaryOperands}
\* (2 m) op (2 s), and powers with a fractional and a negative exponent
Quantity(n) == Parenthesised(InfixOp("Mul", IntegerLit(Dec(2)), Variable(n)))
NestedExprs == {InfixOp(op, Quantity("m"), Quantity(n)) : op \in {"Add", "Mul"}, n \in {"m", "s"}}
                \cup {InfixOp("Pow", Variable("s"), FloatLit(Half)),
                      InfixOp("Pow", Quantity("s"), PrefixOp("Neg", IntegerLit(Dec(2))))}
Exprs == Atoms \cup InfixExprs \cup UnaryExprs \cup NestedExprs
PrintedExprs == {IntegerLit(Dec(2)), Variable("s"), Variable("f"), Quantity("m")}

DeclRhs == {IntegerLit(Dec(2)), Variable("s")}
Decls == {Decl(n, FALSE, <<>>, rhs) : n \in Names, rhs \in DeclRhs}
            \cup {Decl(n, TRUE, <<"a">>, Variable("a")) : n \in FunctionNames}

LineItems == {LineEmpty} \cup {LineUnitDeclaration(n) : n \in Names}
                \cup {LineMaybeDeclaration(d) : d \in Decls}
                \cup {LinePrintedExpression(e) : e \in PrintedExprs}
                \cup {LineSilentExpression(e) : e \in Exprs}

Items == {UnitDeclaration(n) : n \in Names}
            \cup {into_declaration(d) : d \in Decls}
            \cup {PrintedExpression(e) : e \in PrintedExprs}
            \cup {SilentExpression(e) : e \in Exprs}

----------------------------------------------------------------------------
(* The session.                                                             *)

NoMap == [n \in {} |-> None]

Init ==
    /\ units = {}
    /\ variables = NoMap
    /\ functions = NoMap
    /\ input = NoItem
    /\ item = NoItem
    /\ res = None
    /\ nlines = 0

\* A panic ends the session.
Running == res.kind # "Panic" /\ nlines < MaxLines

eval_line_item(li) ==
    /\ Running
    /\ input' = li
    /\ nlines' = nlines + 1
    /\ item' = line_item_to_item(li)
    /\ IF line_item_to_item(li) = NoItem
       THEN Becomes(After(units, variables, functions, Empty))
       ELSE Becomes(eval_item(line_item_to_item(li)))

\* eval_item on an Item of the caller's choice.
eval_item_call(it) ==
    /\ Running
    /\ input' = it
    /\ nlines' = nlines + 1
    /\ item' = it
    /\ Becomes(eval_item(it))

Next == \E li \in LineItems : eval_line_item(li)
NextItem == \E it \in Items : eval_item_call(it)

Spec == Init /\ [][Next]_vars
SpecItem == Init /\ [][NextItem]_vars

----------------------------------------------------------------------------
(* Properties.  A step's statement is item', its outcome res'; the          *)
(* unprimed namespaces are the Runtime the statement was evaluated in.      *)

Unchanged == units' = units /\ variables' = variables /\ functions' = functions
Failed(e) == res' = Err(e)

\* The step evaluated an infix expression statement whose operands both
\* evaluated.
InfixStep ==
    /\ item'.type = "SilentExpression"
    /\ item'.expr.tag = "InfixOp"
    /\ eval_expr(item'.expr.lhs).kind = "Ok"
    /\ eval_expr(item'.expr.rhs).kind = "Ok"
Lhs == eval_expr(item'.expr.lhs).val
Rhs == eval_expr(item'.expr.rhs).val
Op == item'.expr.op

\* C1 as stated: a declaration whose name is already in its own namespace
\* fails with the matching redefinition error, whatever its right-hand side,
\* and leaves the bindings as they were.
C1_Original ==
    [][/\ (item'.type = "UnitDeclaration" /\ item'.name \in units)
            => Failed(UnitRedeclared(item'.name)) /\ Unchanged
       /\ (item'.type = "VariableDeclaration" /\ item'.name \in DOMAIN variables)
            => Failed(VariableRedefined(item'.name)) /\ Unchanged
       /\ (item'.type = "FunctionDeclaration" /\ item'.name \in DOMAIN functions)
            => Failed(FunctionRedefined(item'.name)) /\ Unchanged]_vars

\* C1 amended: a UnitDeclaration of a declared unit fails with UnitRedeclared
\* and a FunctionDeclaration of a declared function with FunctionRedefined; a
\* VariableDeclaration of a bound name fails with VariableRedefined when its
\* right-hand side evaluates, and with that evaluation's EvalError when it
\* returns one; in each case the namespaces stay as they were.
C1_Redefinition ==
    [][/\ (item'.type = "UnitDeclaration" /\ item'.name \in units)
            => Failed(UnitRedeclared(item'.name)) /\ Unchanged
       /\ (item'.type = "VariableDeclaration" /\ item'.name \in DOMAIN variables)
            => /\ Unchanged
               /\ eval_expr(item'.rhs).kind = "Ok" => Failed(VariableRedefined(item'.name))
               /\ eval_expr(item'.rhs).kind = "Err"
                    => Failed(EvalError(eval_expr(item'.rhs).err))
       /\ (item'.type = "FunctionDeclaration" /\ item'.name \in DOMAIN functions)
            => Failed(FunctionRedefined(item'.name)) /\ Unchanged]_vars

\* A second declaration of a bound variable was rejected and the first
\* binding is still there.
C1_Witness ==
    /\ res = Err(VariableRedefined("m"))
    /\ item = VariableDeclaration("m", Variable("s"))
    /\ variables["m"] = Number(Dec(2), UnitNew)

\* C2: a call of eval_line_item that returns an error leaves units, variables
\* and functions as they were, and a variable is bound only by a
\* VariableDeclaration whose right-hand side evaluated, to that value.
C2_NoPartialWrites ==
    [][/\ res'.kind = "Err" => Unchanged
       /\ \A n \in DOMAIN variables' \ DOMAIN variables :
            /\ item' = VariableDeclaration(n, item'.rhs)
            /\ eval_expr(item'.rhs) = Ok(variables'[n])]_vars

\* A declaration failed on its right-hand side in a session that already
\* holds declarations.
C2_Witness ==
    /\ res.kind = "Err"
    /\ res.err.type = "EvalError"
    /\ item.type = "VariableDeclaration"
    /\ item.name \notin DOMAIN variables
    /\ units # {}

\* C3: no call removes or changes an entry: every unit stays declared, every
\* variable keeps its value, every function its parameters and body.
C3_WriteOnce ==
    [][/\ units \subseteq units'
       /\ \A n \in DOMAIN variables :
            n \in DOMAIN variables' /\ variables'[n] = variables[n]
       /\ \A n \in DOMAIN functions :
            n \in DOMAIN functions' /\ functions'[n] = functions[n]]_vars

\* A rejected redeclaration after which the unit and a variable are still
\* there.
C3_Witness ==
    /\ res = Err(UnitRedeclared("s"))
    /\ "s" \in units
    /\ variables # NoMap

\* C4: a line `name = expr` becomes a declaration exactly when the name is in
\* none of the three namespaces, and an equality expression otherwise; with
\* the name bound and a literal on the right the call ends in the abort of
\* the unimplemented equality, never in a second declaration.
C4_Classification ==
    [][input'.type = "MaybeDeclarationOrEqualityExpression" =>
        LET name == input'.decl.name
            known == name \in units \/ name \in DOMAIN variables \/ name \in DOMAIN functions
        IN  /\ item'.type \in {"VariableDeclaration", "FunctionDeclaration"} <=> ~known
            /\ ~known => item'.name = name /\ item'.rhs = input'.decl.rhs
            /\ known => /\ item'.type = "SilentExpression"
                        /\ item'.expr.tag = "InfixOp"
                        /\ item'.expr.op = "Eq"
                        /\ Unchanged
            /\ (name \in DOMAIN variables /\ input'.decl.rhs.tag = "IntegerLit")
                    => res' = Panic("todo")]_vars

\* `m = 2` a second time, after the first one bound m.
C4_Witness ==
    /\ input = LineMaybeDeclaration(Decl("m", FALSE, <<>>, IntegerLit(Dec(2))))
    /\ "m" \in DOMAIN variables
    /\ item.type = "SilentExpression"
    /\ res = Panic("todo")

\* C5 as stated: lookup of every declared unit name gives Number(1) with
\* exponent 1 for that name and no other.
C5_Claim ==
    \A u \in units : lookup(u) = Number(Dec(1), UnitNewNamed(u))

\* C6: on two Numbers, Add, Sub and Mod with different Units fail with
\* IncompatibleUnits carrying the operator and both Units, and with equal
\* Units do not fail and give that Unit; Mul and Div never fail and give the
\* product and the quotient of the Units.
C6_InfixUnits ==
    [][(InfixStep /\ Lhs.kind = "Number" /\ Rhs.kind = "Number") =>
        /\ (Op \in {"Add", "Sub", "Mod"} /\ Lhs.unit # Rhs.unit)
                => Failed(EvalError(UnitError(IncompatibleUnits(Op, Lhs.unit, Rhs.unit))))
        /\ (Op \in {"Add", "Sub", "Mod"} /\ Lhs.unit = Rhs.unit)
                => /\ res'.kind # "Err"
                   /\ res'.kind = "Value" => res'.val.unit = Lhs.unit
        /\ Op \in {"Add", "Sub"} => (res'.kind = "Value" <=> Lhs.unit = Rhs.unit)
        /\ Op = "Mod" => (res'.kind = "Value" => Lhs.unit = Rhs.unit)
        /\ Op \in {"Mul", "Div"} => res'.kind # "Err"
        /\ Op = "Mul" => res'.kind = "Value" /\ res'.val.unit = UnitMultiply(Lhs.unit, Rhs.unit)
        /\ (Op = "Div" /\ res'.kind = "Value")
                => res'.val.unit = UnitDivide(Lhs.unit, Rhs.unit)]_vars

\* (2 m) + (2 s) with both units declared was rejected.
C6_Witness ==
    /\ {"m", "s"} \subseteq units
    /\ item = SilentExpression(InfixOp("Add", Quantity("m"), Quantity("s")))
    /\ res = Err(EvalError(UnitError(
                IncompatibleUnits("Add", UnitNewNamed("m"), UnitNewNamed("s")))))

\* C7 as stated: Div and Mod by a Number of magnitude zero return an error
\* and leave the session as it was.
C7_Claim ==
    [][(/\ InfixStep
        /\ Op \in {"Div", "Mod"}
        /\ Rhs.kind = "Number"
        /\ DecIsZero(Rhs.num)) => res'.kind = "Err" /\ Unchanged]_vars

\* C8 as stated: every infix operator on a pair with a FunctionRef fails with
\* InvalidInfixOperator, whatever the units.
C8_Original ==
    [][(InfixStep /\ "FunctionRef" \in {Lhs.kind, Rhs.kind})
            => Failed(EvalError(InvalidInfixOperator(Op, Lhs, Rhs)))]_vars

\* C8 amended: a pair with a FunctionRef never gives a value.  It fails with
\* InvalidInfixOperator under Mul and Div, under Add, Sub and Mod when the
\* Units are equal, and under Pow when the right operand is a dimensionless
\* integer Number; Add, Sub and Mod on different Units fail with
\* IncompatibleUnits, as does Pow on an exponent with a Unit; Pow on a
\* dimensionless exponent that is no integer Number fails with
\* InvalidPowerValue; Eq, Neq and Gt abort as unimplemented.  Only pairs of
\* Numbers give a value.
C8_KindCompatibility ==
    [][InfixStep =>
        /\ res'.kind = "Value" => Lhs.kind = "Number" /\ Rhs.kind = "Number"
        /\ "FunctionRef" \in {Lhs.kind, Rhs.kind} =>
            LET invalid == Failed(EvalError(InvalidInfixOperator(Op, Lhs, Rhs)))
                units_differ ==
                    Failed(EvalError(UnitError(IncompatibleUnits(Op, Lhs.unit, Rhs.unit))))
            IN  /\ Op \in {"Mul", "Div"} => invalid
                /\ Op \in {"Add", "Sub", "Mod"} =>
                        IF Lhs.unit = Rhs.unit THEN invalid ELSE units_differ
                /\ Op = "Pow" =>
                        IF Rhs.unit # UnitNew THEN units_differ
                        ELSE IF Rhs.kind = "Number" /\ DecIsInteger(Rhs.num) THEN invalid
                        ELSE Failed(EvalError(UnitError(
                                InvalidPowerValue(Lhs.unit, ValueKind(Rhs)))))
                /\ Op \in {"Eq", "Neq", "Gt"} => res' = Panic("todo")]_vars

\* A product of a function and a unit was rejected as an invalid operator.
C8_Witness ==
    /\ item = SilentExpression(InfixOp("Mul", Variable("f"), Variable("m")))
    /\ res = Err(EvalError(InvalidInfixOperator("Mul",
                FunctionRef("f"), Number(Dec(1), UnitNewNamed("m")))))

\* The power of ten of each prefix.
PrefixPower(p) ==
    CASE p = "Femto" -> -15 [] p = "Pico" -> -12 [] p = "Nano" -> -9
      [] p = "Micro" -> -6 [] p = "Milli" -> -3 [] p = "Centi" -> -2
      [] p = "Deci" -> -1 [] p = "Deca" -> 1 [] p = "Hecto" -> 2
      [] p = "Kilo" -> 3 [] p = "Mega" -> 6 [] p = "Giga" -> 9
      [] p = "Tera" -> 12 [] p = "Peta" -> 15

\* C9: a bare name with a prefix reading gives the Value of the full name
\* when that is declared; else the Value of the base name with its magnitude
\* times the prefix's power of ten and its Unit kept (InvalidSiPrefix for a
\* FunctionRef); else UndefinedName of the full name.
C9_PrefixResolution ==
    [][(item'.type = "SilentExpression" /\ item'.expr.tag = "MaybeUnitPrefix") =>
        LET e == item'.expr
            full == lookup(e.full_name)
            base == lookup(e.name)
        IN  IF full # None THEN res' = Value(full)
            ELSE IF base # None THEN
                IF base.kind = "Number"
                THEN res' = Value(Number(DecNorm(base.num.m, base.num.e + PrefixPower(e.prefix)),
                                         base.unit))
                ELSE Failed(EvalError(InvalidSiPrefix(e.prefix, base)))
            ELSE Failed(EvalError(UndefinedName(e.full_name)))]_vars

\* `ms` with a variable ms and a unit s: the variable, not a thousandth of s.
C9_Witness ==
    /\ item = SilentExpression(MaybeUnitPrefix("s", "ms", "Milli"))
    /\ "s" \in units
    /\ "ms" \in DOMAIN variables
    /\ res = Value(variables["ms"])
    /\ res # Value(Number([m |-> 1, e |-> -3], UnitNewNamed("s")))

\* C10: eval_line_item never returns VariableRedefined or FunctionRedefined,
\* and no name is both a bound variable and a declared function.
C10_OnlyUnitRedeclared ==
    /\ res.kind = "Err" => res.err.type \notin {"VariableRedefined", "FunctionRedefined"}
    /\ DOMAIN variables \cap DOMAIN functions = {}

\* The redefinition error that is returned: a unit declared twice.
C10_Witness ==
    /\ res = Err(UnitRedeclared("m"))
    /\ item = UnitDeclaration("m")

============================================================================
